---- MODULE Spec2Model ----
(***************************************************************************)
(* Model of usr.sbin/bgpctl/mrtparser.c: the MRT framing loop (mrt_parse), *)
(* the record decoders, the BGP path attribute extractor                   *)
(* (mrt_extract_attr) and the AS2 -> AS4 path inflation                    *)
(* (mrt_aspath_inflate).                                                   *)
(*                                                                         *)
(* Buffers are sequences of bytes (0..255); a C pointer into a buffer is   *)
(* the 0-based offset of the byte it points to.  A read outside a buffer   *)
(* is undefined behaviour: the byte it yields is given by the variable     *)
(* junk, which Init picks freely, and the framer may also crash there.     *)
(* uint16_t arithmetic is reduced modulo 2^16.  A u_int remaining-length   *)
(* counter is kept as the integer representative of its value modulo 2^32  *)
(* (all magnitudes in the model are far below 2^31): a negative            *)
(* representative is the wrapped value 2^32 - n, see ULt.                  *)
(***************************************************************************)
EXTENDS Integers, Sequences, FiniteSets, TLC

VARIABLES
    junk,       \* the bytes out-of-bounds reads yield (see JunkPatterns)
    idata,      \* SpecInflate: the AS_PATH payload handed to mrt_aspath_inflate
    ires,       \* SpecInflate: what mrt_aspath_inflate returned
    abuf,       \* SpecAttr: the buffer holding the attribute block
    aaid,       \* SpecAttr: the aid argument of mrt_extract_attr
    aas4,       \* SpecAttr: the as4 argument of mrt_extract_attr
    ast,        \* SpecAttr: the loop state of mrt_extract_attr
    pc,         \* mrt_parse: "read" at the loop head, "switch" with a record
                \* read, "done" after return, "exit" when the process ended
    h,          \* mrt_parse: h, the header of the record read last
    msgbuf,     \* mrt_parse: msg, the payload buffer of that record
    pctx,       \* mrt_parse: the peer context held across records
    sinks,      \* which of p->dump, p->state, p->message are set
    nread,      \* the records mrt_read_msg has returned so far
    stream,     \* those records, in input order
    log,        \* the sink invocations made so far, in order
    heap,       \* live heap blocks: msg buffers, peer contexts, and blocks
                \* of decoded records (ribs, entries, attributes, aspaths)
    last,       \* what the decoder called last read and wrote
    eof         \* where the descriptor ended, once mrt_read_msg saw EOF

avars == <<idata, ires, abuf, aaid, aas4, ast>>
fvars == <<pc, h, msgbuf, pctx, sinks, nread, stream, log, heap, last, eof>>
vars == <<junk, avars, fvars>>

-----------------------------------------------------------------------------
(* Program constants.                                                      *)

MRT_ATTR_ORIGIN == 1
MRT_ATTR_ASPATH == 2
MRT_ATTR_NEXTHOP == 3
MRT_ATTR_MED == 4
MRT_ATTR_LOCALPREF == 5
MRT_ATTR_MP_REACH_NLRI == 14
MRT_ATTR_AS4PATH == 17
MRT_ATTR_EXTLEN == 16
UCHAR_MAX == 255
HdrSize == 12
MSG_TABLE_DUMP == 12
MSG_TABLE_DUMP_V2 == 13
MSG_PROTOCOL_BGP4MP == 16
MSG_PROTOCOL_BGP4MP_ET == 17
MRT_DUMP_AFI_IP == 1
MRT_DUMP_AFI_IPv6 == 2
MRT_DUMP_V2_PEER_INDEX_TABLE == 1
MRT_DUMP_V2_RIB_IPV4_UNICAST == 2
MRT_DUMP_V2_RIB_IPV4_MULTICAST == 3
MRT_DUMP_V2_RIB_IPV6_UNICAST == 4
MRT_DUMP_V2_RIB_IPV6_MULTICAST == 5
MRT_DUMP_V2_RIB_GENERIC == 6
MRT_DUMP_V2_RIB_IPV4_UNICAST_ADDPATH == 8
MRT_DUMP_V2_RIB_IPV4_MULTICAST_ADDPATH == 9
MRT_DUMP_V2_RIB_IPV6_UNICAST_ADDPATH == 10
MRT_DUMP_V2_RIB_IPV6_MULTICAST_ADDPATH == 11
MRT_DUMP_V2_RIB_GENERIC_ADDPATH == 12
MRT_DUMP_V2_PEER_BIT_I == 1
BGP4MP_STATE_CHANGE == 0
BGP4MP_MESSAGE == 1
BGP4MP_ENTRY == 2
BGP4MP_MESSAGE_AS4 == 4
BGP4MP_STATE_CHANGE_AS4 == 5
BGP4MP_MESSAGE_LOCAL == 6
BGP4MP_MESSAGE_AS4_LOCAL == 7
BGP4MP_MESSAGE_ADDPATH == 8
BGP4MP_MESSAGE_AS4_ADDPATH == 9
BGP4MP_MESSAGE_LOCAL_ADDPATH == 10
BGP4MP_MESSAGE_AS4_LOCAL_ADDPATH == 11
MRT_DUMP_V2_PEER_BIT_A == 2
U16 == 65536

AIDS == {"AID_INET", "AID_INET6", "AID_VPN_IPv4", "AID_VPN_IPv6"}

-----------------------------------------------------------------------------
(* Bounds of the model.                                                    *)

MaxPathLen == 4     \* SpecInflate: longest enumerated AS_PATH payload
WrapSegs == 65      \* SpecInflate: segments of the long AS_PATH fixture
MaxTlvs == 2        \* SpecAttr: most TLVs of an enumerated attribute block
MaxRecs == 2        \* Spec: most records mrt_read_msg returns

\* what out-of-bounds reads yield: the bytes at even and at odd offsets
JunkPatterns == {<<0, 0>>, <<255, 255>>, <<0, 1>>}

-----------------------------------------------------------------------------
(* Byte access.                                                            *)

Max(x, y) == IF x >= y THEN x ELSE y

\* *(buf + i): the byte at offset i, junk outside the buffer
Byte(buf, i, g) == IF i >= 0 /\ i < Len(buf) THEN buf[i + 1] ELSE g[(i % 2) + 1]

\* memcpy(dst, buf + from, n)
Bytes(buf, from, n, g) == [i \in 1..n |-> Byte(buf, from + i - 1, g)]

\* memcpy of a uint16_t followed by ntohs
Get16(buf, i, g) == 256 * Byte(buf, i, g) + Byte(buf, i + 1, g)

\* comparison a < b of two u_int values given by their representatives
ULt(a, b) ==
    IF (a < 0) = (b < 0) THEN a < b ELSE b < 0

\* all byte sequences over S of length at most n
RECURSIVE SeqsUpTo(_, _)
SeqsUpTo(S, n) ==
    IF n = 0 THEN {<<>>}
    ELSE LET shorter == SeqsUpTo(S, n - 1)
         IN  shorter \cup {Append(s, x) : s \in shorter, x \in S}

-----------------------------------------------------------------------------
(* mrt_aspath_inflate                                                      *)

\* The state of the size pass on entry: seg is the offset of the current
\* segment, olen and nlen are uint16_t, rd the end of the highest byte read
\* so far, ok = FALSE the return NULL.
SizeStart(data, len) ==
    [seg |-> data, olen |-> len, nlen |-> 0, rd |-> data, ok |-> TRUE]

\* one pass through the body of the first for loop and its increment
SizeIter(buf, s, g) ==
    LET seg_len == Byte(buf, s.seg + 1, g)
        seg_size == 2 + 2 * seg_len
    IN  [seg |-> s.seg + seg_size,
         olen |-> IF seg_size > s.olen THEN s.olen ELSE s.olen - seg_size,
         nlen |-> (s.nlen + 2 + 4 * seg_len) % U16,
         rd |-> Max(s.rd, s.seg + 2),
         ok |-> ~(seg_size > s.olen)]

\* the size pass: the first for loop run to its end
RECURSIVE InflateSize(_, _, _)
InflateSize(buf, s, g) ==
    IF ~s.ok \/ s.olen = 0 THEN s
    ELSE InflateSize(buf, SizeIter(buf, s, g), g)

\* the inner for loop: the seg_len ASNs at seg, each written as two zero
\* bytes and its two bytes
InflateAsns(buf, seg, seg_len, g) ==
    [i \in 1..(4 * seg_len) |->
        IF (i - 1) % 4 < 2 THEN 0
        ELSE Byte(buf, seg + 2 * ((i - 1) \div 4) + ((i - 1) % 4) - 2, g)]

\* the copy pass: whole segments are written while nseg < ndata + nlen.
\* out is everything written through nseg, rd the end of the highest byte read.
RECURSIVE InflateCopy(_, _, _, _, _, _)
InflateCopy(buf, seg, out, nlen, rd, g) ==
    IF Len(out) >= nlen THEN [out |-> out, rd |-> rd]
    ELSE LET seg_len == Byte(buf, seg + 1, g)
         IN  InflateCopy(buf, seg + 2 + 2 * seg_len,
                 out \o <<Byte(buf, seg, g), seg_len>>
                     \o InflateAsns(buf, seg + 2, seg_len, g),
                 nlen, Max(rd, seg + 2 + 2 * seg_len), g)

\* What mrt_aspath_inflate(buf + data, len, &newlen) returns after the size
\* pass ended in sz.  ok = FALSE is the NULL return.  aspath is the content of the malloc(nlen) buffer, written the
\* number of bytes stored through nseg (more than nlen is a heap overflow),
\* rd the end of the highest input byte read.
InflateResult(buf, data, sz, g) ==
    IF ~sz.ok
    THEN [ok |-> FALSE, aspath |-> <<>>, newlen |-> 0, written |-> 0,
          rd |-> sz.rd]
    ELSE LET cp == InflateCopy(buf, data, <<>>, sz.nlen, sz.rd, g)
         IN  [ok |-> TRUE,
              aspath |-> SubSeq(cp.out, 1, sz.nlen),
              newlen |-> sz.nlen,
              written |-> Len(cp.out),
              rd |-> cp.rd]

mrt_aspath_inflate(buf, data, len, g) ==
    InflateResult(buf, data, InflateSize(buf, SizeStart(data, len), g), g)

-----------------------------------------------------------------------------
(* mrt_extract_attr                                                        *)

Zero32 == <<0, 0, 0, 0>>

\* a NULL pointer / a malloc'ed byte buffer
NullBuf == [set |-> FALSE, bytes |-> <<>>]
MkBuf(b) == [set |-> TRUE, bytes |-> b]

\* a zeroed struct bgpd_addr
NoAddr == [aid |-> "AID_UNSPEC", addr |-> <<>>]

\* a calloc'ed struct mrt_rib_entry
NewEntry ==
    [peer_idx |-> 0, originated |-> Zero32, path_id |-> Zero32,
     origin |-> 0, aspath |-> NullBuf, aspath_len |-> 0,
     nexthop |-> NoAddr, med |-> Zero32, local_pref |-> Zero32,
     nattrs |-> 0, attrs |-> <<>>]

\* The state of the do/while loop on entry: a and alen are the arguments,
\* re the entry being filled.  The other fields record what the loop did:
\* tlvs the attributes it dispatched on (type, offset of the flags byte,
\* header size, declared length, bytes of the span left after the header),
\* fset the recognised fields it assigned, leaked the buffers it lost the
\* last pointer to, rd the end of the highest byte read, mp the
\* MP_REACH_NLRI payloads it looked at, end the offset just past the span.
AttrStart(re, a, alen) ==
    [re |-> re, a |-> a, alen |-> alen, status |-> "run", end |-> a + alen,
     tlvs |-> <<>>, fset |-> {}, leaked |-> 0, rd |-> a, mp |-> <<>>]

\* flags & MRT_ATTR_EXTLEN
ExtLen(flags) == (flags \div MRT_ATTR_EXTLEN) % 2 = 1

\* what a case of the switch yields: the entry, whether it returned -1 or
\* called err(), the field it assigned, the end of its reads, the pointer
\* and length as the case leaves them.
CaseResult(re, how, field, leak, rd, a, attr_len) ==
    [re |-> re, how |-> how, field |-> field, leak |-> leak, rd |-> rd,
     a |-> a, attr_len |-> attr_len, mp |-> <<>>]

\* case MRT_ATTR_ORIGIN
AttrOrigin(buf, re, a, attr_len, g) ==
    IF attr_len # 1
    THEN CaseResult(re, "fail", "none", 0, 0, a, attr_len)
    ELSE CaseResult([re EXCEPT !.origin = Byte(buf, a, g)],
                    "break", "origin", 0, a + 1, a, attr_len)

\* case MRT_ATTR_ASPATH
AttrAspath(buf, re, a, attr_len, as4, g) ==
    LET lost == IF re.aspath.set THEN 1 ELSE 0
    IN  IF as4
        THEN CaseResult([re EXCEPT !.aspath_len = attr_len,
                                   !.aspath = MkBuf(Bytes(buf, a, attr_len, g))],
                        "break", "aspath", lost,
                        IF attr_len > 0 THEN a + attr_len ELSE 0, a, attr_len)
        ELSE LET inf == mrt_aspath_inflate(buf, a, attr_len, g)
             IN  IF ~inf.ok
                 THEN CaseResult([re EXCEPT !.aspath = NullBuf],
                                 "fail", "none", lost, inf.rd, a, attr_len)
                 ELSE CaseResult([re EXCEPT !.aspath = MkBuf(inf.aspath),
                                            !.aspath_len = inf.newlen],
                                 "break", "aspath", lost, inf.rd, a, attr_len)

\* AttrNexthop without the test of the record's family
AttrNexthopAnyAid(buf, re, a, attr_len, aid, g) ==
    IF attr_len # 4
    THEN CaseResult(re, "fail", "none", 0, 0, a, attr_len)
    ELSE CaseResult([re EXCEPT !.nexthop =
                         [aid |-> "AID_INET", addr |-> Bytes(buf, a, 4, g)]],
                    "break", "nexthop", 0, a + 4, a, attr_len)

\* case MRT_ATTR_NEXTHOP
AttrNexthop(buf, re, a, attr_len, aid, g) ==
    IF attr_len # 4
    THEN CaseResult(re, "fail", "none", 0, 0, a, attr_len)
    ELSE IF aid # "AID_INET"
    THEN CaseResult(re, "break", "none", 0, 0, a, attr_len)
    ELSE CaseResult([re EXCEPT !.nexthop =
                         [aid |-> "AID_INET", addr |-> Bytes(buf, a, 4, g)]],
                    "break", "nexthop", 0, a + 4, a, attr_len)

\* case MRT_ATTR_MED
AttrMed(buf, re, a, attr_len, g) ==
    IF attr_len # 4
    THEN CaseResult(re, "fail", "none", 0, 0, a, attr_len)
    ELSE CaseResult([re EXCEPT !.med = Bytes(buf, a, 4, g)],
                    "break", "med", 0, a + 4, a, attr_len)

\* case MRT_ATTR_LOCALPREF
AttrLocalPref(buf, re, a, attr_len, g) ==
    IF attr_len # 4
    THEN CaseResult(re, "fail", "none", 0, 0, a, attr_len)
    ELSE CaseResult([re EXCEPT !.local_pref = Bytes(buf, a, 4, g)],
                    "break", "local_pref", 0, a + 4, a, attr_len)

\* case MRT_ATTR_MP_REACH_NLRI.  The peek compares *a with the int
\* attr_len - 1; attr_len -= 3 is uint16_t arithmetic.  mp records the
\* declared length, whether the three bytes were skipped, and where the
\* copy (if any) ends relative to the pointer after the skip.
AttrMpReach(buf, re, a0, len0, aid, g) ==
    LET skip == Byte(buf, a0, g) # len0 - 1
        a == IF skip THEN a0 + 3 ELSE a0
        attr_len == IF skip THEN (len0 - 3 + U16) % U16 ELSE len0
        need == CASE aid = "AID_INET6" -> 17
                  [] aid = "AID_VPN_IPv4" -> 12
                  [] aid = "AID_VPN_IPv6" -> 24
                  [] OTHER -> 0
        from == IF aid = "AID_INET6" THEN a + 1 ELSE a + 9
        n == IF aid = "AID_VPN_IPv4" THEN 4 ELSE 16
        look(copied) == <<[len0 |-> len0, skip |-> skip, attr_len |-> attr_len,
                           copied |-> copied, cend |-> from + n - a]>>
    IN  IF aid \notin {"AID_INET6", "AID_VPN_IPv4", "AID_VPN_IPv6"}
        THEN [CaseResult(re, "break", "none", 0, a0 + 1, a, attr_len)
                 EXCEPT !.mp = look(FALSE)]
        ELSE IF attr_len < need
        THEN [CaseResult(re, "fail", "none", 0, a0 + 1, a, attr_len)
                 EXCEPT !.mp = look(FALSE)]
        ELSE [CaseResult([re EXCEPT !.nexthop =
                              [aid |-> aid, addr |-> Bytes(buf, from, n, g)]],
                         "break", "nexthop", 0, from + n, a, attr_len)
                 EXCEPT !.mp = look(TRUE)]

\* AttrDefault with the cap tested by > instead of >=
AttrDefaultOffByOne(buf, re, attr, a, attr_len, g) ==
    IF re.nattrs + 1 > UCHAR_MAX
    THEN CaseResult([re EXCEPT !.nattrs = re.nattrs + 1],
                    "err", "none", 0, 0, a, attr_len)
    ELSE CaseResult([re EXCEPT !.nattrs = re.nattrs + 1,
                               !.attrs = Append(re.attrs,
                                   Bytes(buf, attr, a + attr_len - attr, g))],
                    "break", "extra", 0, a + attr_len, a, attr_len)

\* default: (and MRT_ATTR_AS4PATH when as4 is set): attr is the offset of
\* the flags byte
AttrDefault(buf, re, attr, a, attr_len, g) ==
    IF re.nattrs + 1 >= UCHAR_MAX
    THEN CaseResult([re EXCEPT !.nattrs = re.nattrs + 1],
                    "err", "none", 0, 0, a, attr_len)
    ELSE CaseResult([re EXCEPT !.nattrs = re.nattrs + 1,
                               !.attrs = Append(re.attrs,
                                   Bytes(buf, attr, a + attr_len - attr, g))],
                    "break", "extra", 0, a + attr_len, a, attr_len)

\* case MRT_ATTR_AS4PATH
AttrAs4Path(buf, re, attr, a, attr_len, as4, g) ==
    IF ~as4
    THEN CaseResult([re EXCEPT !.aspath_len = attr_len,
                               !.aspath = MkBuf(Bytes(buf, a, attr_len, g))],
                    "break", "aspath", 0,
                    IF attr_len > 0 THEN a + attr_len ELSE 0, a, attr_len)
    ELSE AttrDefault(buf, re, attr, a, attr_len, g)

\* switch (type)
AttrSwitch(buf, re, type, attr, a, attr_len, aid, as4, g) ==
    CASE type = MRT_ATTR_ORIGIN -> AttrOrigin(buf, re, a, attr_len, g)
      [] type = MRT_ATTR_ASPATH -> AttrAspath(buf, re, a, attr_len, as4, g)
      [] type = MRT_ATTR_NEXTHOP -> AttrNexthop(buf, re, a, attr_len, aid, g)
      [] type = MRT_ATTR_MED -> AttrMed(buf, re, a, attr_len, g)
      [] type = MRT_ATTR_LOCALPREF -> AttrLocalPref(buf, re, a, attr_len, g)
      [] type = MRT_ATTR_MP_REACH_NLRI ->
             AttrMpReach(buf, re, a, attr_len, aid, g)
      [] type = MRT_ATTR_AS4PATH ->
             AttrAs4Path(buf, re, attr, a, attr_len, as4, g)
      [] OTHER -> AttrDefault(buf, re, attr, a, attr_len, g)

\* one pass through the body of the do/while loop and its condition
AttrIter(buf, st, aid, as4, g) ==
    IF st.alen < 3 THEN [st EXCEPT !.status = "fail"]
    ELSE
    LET attr == st.a
        flags == Byte(buf, attr, g)
        type == Byte(buf, attr + 1, g)
        ext == ExtLen(flags)
    IN  IF ext /\ st.alen - 2 < 2
        THEN [st EXCEPT !.status = "fail", !.rd = Max(st.rd, attr + 2)]
        ELSE
        LET attr_len == IF ext THEN Get16(buf, attr + 2, g)
                        ELSE Byte(buf, attr + 2, g)
            hlen == IF ext THEN 4 ELSE 3
            a == attr + hlen
            alen == st.alen - hlen
            c == AttrSwitch(buf, st.re, type, attr, a, attr_len, aid, as4, g)
            a2 == c.a + c.attr_len
            alen2 == alen - (c.a - a) - c.attr_len
            tlv == [type |-> type, start |-> attr, hlen |-> hlen,
                    len |-> attr_len, left |-> alen]
        IN  [re |-> c.re, a |-> a2, alen |-> alen2, end |-> st.end,
             status |-> CASE c.how = "fail" -> "fail"
                          [] c.how = "err" -> "fatal"
                          [] OTHER -> IF alen2 > 0 THEN "run" ELSE "ok",
             tlvs |-> Append(st.tlvs, tlv),
             fset |-> IF c.field \in {"none", "extra"} THEN st.fset
                      ELSE st.fset \cup {c.field},
             leaked |-> st.leaked + c.leak,
             rd |-> Max(Max(st.rd, a), c.rd),
             mp |-> st.mp \o c.mp]

\* the loop run to its return; "ok" is return 0, "fail" return -1 and
\* "fatal" the err() exit
RECURSIVE AttrLoop(_, _, _, _, _)
AttrLoop(buf, st, aid, as4, g) ==
    IF st.status # "run" THEN st
    ELSE AttrLoop(buf, AttrIter(buf, st, aid, as4, g), aid, as4, g)

mrt_extract_attr(buf, re, a, alen, aid, as4, g) ==
    AttrLoop(buf, AttrStart(re, a, alen), aid, as4, g)

-----------------------------------------------------------------------------
(* Addresses and prefixes.                                                 *)

\* mrt_afi2aid(afi, safi, verbose); safi = -1 is "any"
mrt_afi2aid(afi, safi) ==
    IF afi = MRT_DUMP_AFI_IP /\ safi \in {-1, 1, 2} THEN "AID_INET"
    ELSE IF afi = MRT_DUMP_AFI_IP /\ safi = 128 THEN "AID_VPN_IPv4"
    ELSE IF afi = MRT_DUMP_AFI_IPv6 /\ safi \in {-1, 1, 2} THEN "AID_INET6"
    ELSE IF afi = MRT_DUMP_AFI_IPv6 /\ safi = 128 THEN "AID_VPN_IPv6"
    ELSE "AID_UNSPEC"

\* the bytes an address of the family takes on the wire, and those of them
\* that precede the address proper (route distinguisher and labels)
AddrSize(aid) ==
    CASE aid = "AID_INET" -> 4
      [] aid = "AID_INET6" -> 16
      [] aid = "AID_VPN_IPv4" -> 12
      [] aid = "AID_VPN_IPv6" -> 24
      [] OTHER -> 0
AddrSkip(aid) == IF aid \in {"AID_VPN_IPv4", "AID_VPN_IPv6"} THEN 8 ELSE 0

\* mrt_extract_addr(buf + b, len, addr, aid): ret is the return value, addr
\* what *addr holds afterwards (zeroed by the memset on failure), rd the end
\* of the bytes read (0: none)
mrt_extract_addr(buf, b, len, aid, g) ==
    IF aid \notin AIDS \/ ULt(len, AddrSize(aid))
    THEN [ret |-> -1, addr |-> NoAddr, rd |-> 0]
    ELSE [ret |-> AddrSize(aid),
          addr |-> [aid |-> aid,
                    addr |-> Bytes(buf, b + AddrSkip(aid),
                                   AddrSize(aid) - AddrSkip(aid), g)],
          rd |-> b + AddrSize(aid)]

\* the widest prefix of a family, in bits
MaxPrefixLen(aid) == IF aid \in {"AID_INET", "AID_VPN_IPv4"} THEN 32 ELSE 128

\* the NLRI sub-decoder behind mrt_extract_prefix (nlri_get_prefix and its
\* siblings): a 1-byte bit length, then that many bits rounded up to bytes
nlri_get_prefix(buf, b, len, aid, g) ==
    IF ULt(len, 1) THEN [ret |-> -1, prefix |-> NoAddr, prefixlen |-> 0, rd |-> 0]
    ELSE LET plen == Byte(buf, b, g)
             n == (plen + 7) \div 8
         IN  IF plen > MaxPrefixLen(aid) \/ ULt(len - 1, n)
             THEN [ret |-> -1, prefix |-> NoAddr, prefixlen |-> 0, rd |-> b + 1]
             ELSE [ret |-> 1 + n,
                   prefix |-> [aid |-> aid, addr |-> Bytes(buf, b + 1, n, g)],
                   prefixlen |-> plen,
                   rd |-> b + 1 + n]

\* mrt_extract_prefix(buf + b, len, aid, prefix, prefixlen, verbose): ret is
\* the number of bytes the prefix took, or -1
mrt_extract_prefix(buf, b, len, aid, g) ==
    IF aid \notin AIDS
    THEN [ret |-> -1, prefix |-> NoAddr, prefixlen |-> 0, rd |-> 0]
    ELSE nlri_get_prefix(buf, b, len, aid, g)

-----------------------------------------------------------------------------
(* mrt_parse_v2_peer                                                       *)

\* a NULL struct mrt_peer pointer
NoPeers ==
    [set |-> FALSE, bgp_id |-> Zero32, view |-> NullBuf, npeers |-> 0,
     peers |-> <<>>]

\* a zeroed struct mrt_peer_entry
NewPeerEntry == [bgp_id |-> Zero32, addr |-> NoAddr, asnum |-> Zero32]

\* type & bit
HasBit(type, bit) == (type \div bit) % 2 = 1

\* One pass through the for loop over the peer entries.  s holds b, len (a
\* u_int), the peers decoded so far, the end of the highest byte read, and
\* ok = FALSE after goto fail.
PeerIter(msg, s, g) ==
    IF ULt(s.len, 5) THEN [s EXCEPT !.ok = FALSE]
    ELSE
    LET type == Byte(msg, s.b, g)
        bid == Bytes(msg, s.b + 1, 4, g)
        aid == IF HasBit(type, MRT_DUMP_V2_PEER_BIT_I)
               THEN "AID_INET6" ELSE "AID_INET"
        ad == mrt_extract_addr(msg, s.b + 5, s.len - 5, aid, g)
        b2 == s.b + 5 + AddrSize(aid)
        len2 == s.len - 5 - AddrSize(aid)
        wide == HasBit(type, MRT_DUMP_V2_PEER_BIT_A)
        as4 == IF wide THEN Bytes(msg, b2, 4, g)
               ELSE <<0, 0>> \o Bytes(msg, b2, 2, g)
        n == IF wide THEN 4 ELSE 2
    IN  IF ad.ret = -1
        THEN [s EXCEPT !.ok = FALSE, !.hi = Max(s.hi, s.b + 5)]
        ELSE [b |-> b2 + n, len |-> len2 - n, ok |-> TRUE,
              hi |-> Max(s.hi, b2 + n),
              peers |-> Append(s.peers,
                  [bgp_id |-> bid, addr |-> ad.addr, asnum |-> as4])]

RECURSIVE PeerLoop(_, _, _, _)
PeerLoop(msg, s, cnt, g) ==
    IF ~s.ok \/ Len(s.peers) >= cnt THEN s
    ELSE PeerLoop(msg, PeerIter(msg, s, g), cnt, g)

\* mrt_parse_v2_peer(hdr, msg): p is the context returned (NoPeers: NULL),
\* hi the end of the highest byte of msg read.  Every block the function
\* allocates is freed again on the fail path.
mrt_parse_v2_peer(hdr, msg, g) ==
    IF hdr.length < 8 THEN [p |-> NoPeers, hi |-> 0]
    ELSE
    LET bid == Bytes(msg, 0, 4, g)
        vlen == Get16(msg, 4, g)
        len1 == hdr.length - 6
    IN  IF vlen > len1 THEN [p |-> NoPeers, hi |-> 6]
        ELSE
        LET view == Bytes(msg, 6, vlen, g)
            len2 == len1 - vlen
        IN  IF len2 < 2 THEN [p |-> NoPeers, hi |-> 6 + vlen]
            ELSE
            LET cnt == Get16(msg, 6 + vlen, g)
                s == PeerLoop(msg,
                         [b |-> 8 + vlen, len |-> len2 - 2, ok |-> TRUE,
                          hi |-> 8 + vlen, peers |-> <<>>], cnt, g)
            IN  IF ~s.ok THEN [p |-> NoPeers, hi |-> s.hi]
                ELSE [p |-> [set |-> TRUE, bgp_id |-> bid,
                             view |-> MkBuf(view), npeers |-> cnt,
                             peers |-> s.peers],
                      hi |-> s.hi]

-----------------------------------------------------------------------------
(* struct mrt_rib and mrt_free_rib                                         *)

\* a NULL entries pointer / a calloc'ed array of entries
NoEntries == [set |-> FALSE, list |-> <<>>]
MkEntries(l) == [set |-> TRUE, list |-> l]

\* a calloc'ed struct mrt_rib
NewRib ==
    [seqnum |-> Zero32, prefix |-> NoAddr, prefixlen |-> 0, add_path |-> FALSE,
     nentries |-> 0, entries |-> NoEntries]

\* the heap blocks one entry points to: the attribute blobs, the attrs
\* array and the aspath
EntryOwned(re) ==
    Len(re.attrs) + (IF re.nattrs > 0 THEN 1 ELSE 0)
                  + (IF re.aspath.set THEN 1 ELSE 0)

\* the heap blocks mrt_extract_attr left allocated for the entry it filled:
\* those the entry points to and those it no longer points to
EntryBlocks(at) == EntryOwned(at.re) + at.leaked

RECURSIVE SumOwned(_, _)
SumOwned(list, n) ==
    IF n = 0 THEN 0 ELSE EntryOwned(list[n]) + SumOwned(list, n - 1)

\* mrt_free_rib(r): the number of blocks it frees.  The loop runs over
\* i < r->nentries && r->entries.
mrt_free_rib(r) ==
    (IF r.entries.set
     THEN SumOwned(r.entries.list, Len(r.entries.list)) + 1 ELSE 0) + 1

-----------------------------------------------------------------------------
(* mrt_parse_v2_rib                                                        *)

V2Ipv4 ==
    {MRT_DUMP_V2_RIB_IPV4_UNICAST, MRT_DUMP_V2_RIB_IPV4_MULTICAST,
     MRT_DUMP_V2_RIB_IPV4_UNICAST_ADDPATH, MRT_DUMP_V2_RIB_IPV4_MULTICAST_ADDPATH}
V2Ipv6 ==
    {MRT_DUMP_V2_RIB_IPV6_UNICAST, MRT_DUMP_V2_RIB_IPV6_MULTICAST,
     MRT_DUMP_V2_RIB_IPV6_UNICAST_ADDPATH, MRT_DUMP_V2_RIB_IPV6_MULTICAST_ADDPATH}
V2Generic == {MRT_DUMP_V2_RIB_GENERIC, MRT_DUMP_V2_RIB_GENERIC_ADDPATH}
V2AddPath ==
    {MRT_DUMP_V2_RIB_IPV4_UNICAST_ADDPATH, MRT_DUMP_V2_RIB_IPV4_MULTICAST_ADDPATH,
     MRT_DUMP_V2_RIB_IPV6_UNICAST_ADDPATH, MRT_DUMP_V2_RIB_IPV6_MULTICAST_ADDPATH,
     MRT_DUMP_V2_RIB_GENERIC_ADDPATH}
V2Rib == V2Ipv4 \cup V2Ipv6 \cup V2Generic

\* The end of one pass through the for loop over the entries, after
\* mrt_extract_attr ended in at: b += alen, len -= alen.
RibIterEnd(s, at, b, len, path_id, hi) ==
    [b |-> b, len |-> len,
     entries |-> Append(s.entries, at.re),
     path_id |-> path_id,
     hi |-> Max(hi, at.rd),
     blocks |-> s.blocks + EntryBlocks(at),
     how |-> CASE at.status = "ok" -> "run"
               [] at.status = "fatal" -> "fatal"
               [] OTHER -> "fail"]

\* One pass through the for loop over the entries.  s holds b, len (a
\* u_int), the entries filled so far, path_id, the end of the highest byte
\* read, the blocks allocated for the entries, and how the loop stands:
\* "run", "fail" after goto fail, "fatal" after err().
RibIter(msg, s, add_path, aid, g) ==
    IF ULt(s.len, 8) THEN [s EXCEPT !.how = "fail"]
    ELSE
    LET pix == Get16(msg, s.b, g)
        otm == Bytes(msg, s.b + 2, 4, g)
        b1 == s.b + 6
        len1 == s.len - 6
    IN  IF add_path /\ ULt(len1, 6)
        THEN [s EXCEPT !.how = "fail", !.hi = Max(s.hi, b1)]
        ELSE
        LET path_id == IF add_path THEN Bytes(msg, b1, 4, g) ELSE s.path_id
            b2 == IF add_path THEN b1 + 4 ELSE b1
            len2 == IF add_path THEN len1 - 4 ELSE len1
            alen == Get16(msg, b2, g)
            b3 == b2 + 2
            len3 == len2 - 2
            re == [NewEntry EXCEPT !.peer_idx = pix, !.originated = otm,
                                   !.path_id = path_id]
        IN  IF ULt(len3, alen)
            THEN [s EXCEPT !.how = "fail", !.hi = Max(s.hi, b3)]
            ELSE RibIterEnd(s, mrt_extract_attr(msg, re, b3, alen, aid, TRUE, g),
                            b3 + alen, len3 - alen, path_id, Max(s.hi, b3))

RECURSIVE RibLoop(_, _, _, _, _, _)
RibLoop(msg, s, cnt, add_path, aid, g) ==
    IF s.how # "run" \/ Len(s.entries) >= cnt THEN s
    ELSE RibLoop(msg, RibIter(msg, s, add_path, aid, g), cnt, add_path, aid, g)

\* what mrt_parse_v2_rib returns: how it returned, the rib (meaningful when
\* how = "ok"), the end of the highest byte of msg read, and the blocks
\* allocated for the record that are not freed on return
V2Result(how, r, hi, live) == [how |-> how, r |-> r, hi |-> hi, live |-> live]

\* the fail label: mrt_free_rib(r), free(entries).  r->entries is still
\* NULL there; alloc counts r and the entries array, blocks those of the
\* entries.
V2Fail(how, r, hi, alloc, blocks) ==
    V2Result(how, r, hi, alloc + blocks - mrt_free_rib(r) - (alloc - 1))

\* the return after the loop over the entries ended in s
V2Return(r, s) ==
    IF s.how # "run"
    THEN V2Fail(s.how, r, s.hi, 2, s.blocks)
    ELSE V2Result("ok", [r EXCEPT !.entries = MkEntries(s.entries)],
                  s.hi, 2 + s.blocks)

\* mrt_parse_v2_rib(hdr, msg, verbose)
mrt_parse_v2_rib(hdr, msg, g) ==
    IF hdr.length < 5 THEN V2Result("fail", NewRib, 0, 0)
    ELSE
    LET sub == hdr.subtype
        r0 == [NewRib EXCEPT !.seqnum = Bytes(msg, 0, 4, g),
                             !.add_path = sub \in V2AddPath]
        len0 == hdr.length - 4
        generic == sub \in V2Generic
    IN  IF generic /\ len0 < 3 THEN V2Fail("fail", r0, 4, 1, 0)
        ELSE
        LET aid == IF sub \in V2Ipv4 THEN "AID_INET"
                   ELSE IF sub \in V2Ipv6 THEN "AID_INET6"
                   ELSE mrt_afi2aid(Get16(msg, 4, g), Byte(msg, 6, g))
            b1 == IF generic THEN 7 ELSE 4
            len1 == IF generic THEN len0 - 3 ELSE len0
        IN  IF aid = "AID_UNSPEC" THEN V2Fail("fail", r0, b1, 1, 0)
            ELSE
            LET px == mrt_extract_prefix(msg, b1, len1, aid, g)
            IN  IF px.ret = -1 THEN V2Fail("fail", r0, Max(b1, px.rd), 1, 0)
                ELSE
                LET r1 == [r0 EXCEPT !.prefix = px.prefix,
                                     !.prefixlen = px.prefixlen]
                    b2 == b1 + px.ret
                    len2 == len1 - px.ret
                IN  IF len2 < 2 THEN V2Fail("fail", r1, b2, 1, 0)
                    ELSE
                    V2Return([r1 EXCEPT !.nentries = Get16(msg, b2, g)],
                        RibLoop(msg,
                            [b |-> b2 + 2, len |-> len2 - 2,
                             entries |-> <<>>, path_id |-> Zero32,
                             hi |-> b2 + 2, blocks |-> 0, how |-> "run"],
                            Get16(msg, b2, g), r0.add_path, aid, g))

-----------------------------------------------------------------------------
(* mrt_parse_dump and mrt_parse_dump_mp                                    *)

\* the context the legacy decoders calloc when *pp is NULL
OnePeer ==
    [set |-> TRUE, bgp_id |-> Zero32, view |-> NullBuf, npeers |-> 1,
     peers |-> <<NewPeerEntry>>]

\* if (*pp == NULL) { ... }
EnsurePeers(pp) == IF pp.set THEN pp ELSE OnePeer

\* a store through p->peers (slot 0): lost to the model when the array has
\* no element (the store is then outside the array)
SetPeerAddr(p, addr) ==
    IF Len(p.peers) = 0 THEN p ELSE [p EXCEPT !.peers[1].addr = addr]
SetPeerAs(p, as) ==
    IF Len(p.peers) = 0 THEN p ELSE [p EXCEPT !.peers[1].asnum = as]

\* what the legacy decoders return: how ("ok", "fail", or "fatal" for
\* err()) and the return value ret, the rib, *pp afterwards, the end of the
\* highest byte of msg read, the blocks allocated for the record that are
\* not freed on return, whether a store through p->peers was made, and
\* whether it fell outside the array
DumpResult(how, r, pp, hi, live, stored) ==
    [how |-> how, ret |-> IF how = "ok" THEN 0 ELSE -1,
     r |-> r, pp |-> pp, hi |-> hi, live |-> live,
     stored |-> stored, oobw |-> stored /\ Len(pp.peers) = 0]

\* the fail label: mrt_free_rib(r); r->entries is the one entry re, the
\* blocks are r, re and those mrt_extract_attr allocated
DumpFail(how, r, pp, hi, blocks, stored) ==
    DumpResult(how, r, pp, hi, 2 + blocks - mrt_free_rib(r), stored)

\* the return after mrt_extract_attr ended in at
DumpReturn(at, r, pp, hi) ==
    IF at.status = "ok"
    THEN DumpResult("ok", [r EXCEPT !.entries = MkEntries(<<at.re>>)], pp,
                    Max(hi, at.rd), 2 + EntryBlocks(at), TRUE)
    ELSE DumpFail(IF at.status = "fatal" THEN "fatal" ELSE "fail",
                  [r EXCEPT !.entries = MkEntries(<<at.re>>)], pp,
                  Max(hi, at.rd), EntryBlocks(at), TRUE)

\* the tail shared by both decoders: attr_len, the length test and
\* mrt_extract_attr(re, b, alen, r->prefix.aid, 0)
DumpAttrs(msg, r, re, pp, b, len, hi, g) ==
    IF ULt(len - 2, Get16(msg, b, g))
    THEN DumpFail("fail", [r EXCEPT !.entries = MkEntries(<<re>>)], pp,
                  Max(hi, b + 2), 0, TRUE)
    ELSE DumpReturn(mrt_extract_attr(msg, re, b + 2, Get16(msg, b, g),
                                     r.prefix.aid, FALSE, g),
                    r, pp, Max(hi, b + 2))

\* mrt_parse_dump(hdr, msg, pp, rp)
mrt_parse_dump(hdr, msg, pp, g) ==
    LET p == EnsurePeers(pp)
        aid == IF hdr.subtype = MRT_DUMP_AFI_IP THEN "AID_INET" ELSE "AID_INET6"
        r0 == [NewRib EXCEPT !.nentries = 1, !.entries = MkEntries(<<NewEntry>>)]
    IN  IF hdr.length < 4 THEN DumpFail("fail", r0, p, 0, 0, FALSE)
        ELSE
        LET r1 == [r0 EXCEPT !.seqnum = <<0, 0>> \o Bytes(msg, 2, 2, g)]
            pa == mrt_extract_addr(msg, 4, hdr.length - 4, aid, g)
            r2 == [r1 EXCEPT !.prefix = pa.addr]
            b1 == 4 + AddrSize(aid)
            len1 == hdr.length - 4 - AddrSize(aid)
        IN  IF pa.ret = -1 THEN DumpFail("fail", r2, p, 4, 0, FALSE)
            ELSE IF len1 < 14 THEN DumpFail("fail", r2, p, b1, 0, FALSE)
            ELSE
            LET r3 == [r2 EXCEPT !.prefixlen = Byte(msg, b1, g)]
                re == [NewEntry EXCEPT !.originated = Bytes(msg, b1 + 2, 4, g)]
                b2 == b1 + 6
                len2 == len1 - 6
                ea == mrt_extract_addr(msg, b2, len2, aid, g)
                p1 == SetPeerAddr(p, ea.addr)
            IN  IF ea.ret = -1
                THEN DumpFail("fail", [r3 EXCEPT !.entries = MkEntries(<<re>>)],
                              p1, b2, 0, TRUE)
                ELSE
                LET b3 == b2 + AddrSize(aid)
                    len3 == len2 - AddrSize(aid)
                    p2 == SetPeerAs(p1, <<0, 0>> \o Bytes(msg, b3, 2, g))
                IN  DumpAttrs(msg, r3, re, p2, b3 + 2, len3 - 2, b3 + 2, g)

\* mrt_parse_dump_mp(hdr, msg, pp, rp, verbose)
mrt_parse_dump_mp(hdr, msg, pp, g) ==
    LET et == hdr.type = MSG_PROTOCOL_BGP4MP_ET
        b0 == IF et THEN 4 ELSE 0
        len0 == IF et THEN hdr.length - 4 ELSE hdr.length
        p == EnsurePeers(pp)
        r0 == [NewRib EXCEPT !.nentries = 1, !.entries = MkEntries(<<NewEntry>>)]
    IN  IF ULt(len0, 8) THEN DumpFail("fail", r0, p, 0, 0, FALSE)
        ELSE
        LET p1 == SetPeerAs(p, <<0, 0>> \o Bytes(msg, b0 + 2, 2, g))
            afi == Get16(msg, b0 + 6, g)
            b1 == b0 + 8
            len1 == len0 - 8
            known == afi \in {MRT_DUMP_AFI_IP, MRT_DUMP_AFI_IPv6}
            paid == IF afi = MRT_DUMP_AFI_IP THEN "AID_INET" ELSE "AID_INET6"
            n == IF known THEN AddrSize(paid) ELSE 0
        IN  IF known /\ ULt(len1, 2 * n) THEN DumpFail("fail", r0, p1, b1, 0, TRUE)
            ELSE
            LET ea == mrt_extract_addr(msg, b1 + n, len1 - n, paid, g)
                p2 == IF known THEN SetPeerAddr(p1, ea.addr) ELSE p1
                b2 == b1 + 2 * n
                len2 == len1 - 2 * n
            IN  IF known /\ ea.ret = -1 THEN DumpFail("fail", r0, p2, b1, 0, TRUE)
                ELSE IF ULt(len2, 12)
                THEN DumpFail("fail", r0, p2, Max(b1, b2), 0, TRUE)
                ELSE
                LET re == [NewEntry EXCEPT !.originated = Bytes(msg, b2 + 4, 4, g)]
                    aid == mrt_afi2aid(Get16(msg, b2 + 8, g), Byte(msg, b2 + 10, g))
                    nhlen == Byte(msg, b2 + 11, g)
                    b3 == b2 + 12
                    len3 == len2 - 12
                    r1 == [r0 EXCEPT !.entries = MkEntries(<<re>>)]
                IN  IF aid = "AID_UNSPEC" THEN DumpFail("fail", r1, p2, b2 + 11, 0, TRUE)
                    ELSE
                    LET nh == mrt_extract_addr(msg, b3, len3, aid, g)
                        re1 == [re EXCEPT !.nexthop = nh.addr]
                        r2 == [r0 EXCEPT !.entries = MkEntries(<<re1>>)]
                    IN  IF nh.ret = -1 \/ ULt(len3, nhlen)
                        THEN DumpFail("fail", r2, p2, Max(b3, nh.rd), 0, TRUE)
                        ELSE
                        LET b4 == b3 + nhlen
                            len4 == len3 - nhlen
                            px == mrt_extract_prefix(msg, b4, len4, aid, g)
                            r3 == [r2 EXCEPT !.prefix = px.prefix,
                                             !.prefixlen = px.prefixlen]
                        IN  IF px.ret = -1
                            THEN DumpFail("fail", r3, p2, Max(nh.rd, px.rd), 0, TRUE)
                            ELSE DumpAttrs(msg, r3, re1, p2, b4 + px.ret,
                                           len4 - px.ret,
                                           Max(Max(nh.rd, px.rd), b4 + px.ret + 2), g)

-----------------------------------------------------------------------------
(* mrt_parse_state and mrt_parse_msg                                       *)

BgpState == {BGP4MP_STATE_CHANGE, BGP4MP_STATE_CHANGE_AS4}
BgpMsgAs2 ==
    {BGP4MP_MESSAGE, BGP4MP_MESSAGE_LOCAL, BGP4MP_MESSAGE_ADDPATH,
     BGP4MP_MESSAGE_LOCAL_ADDPATH}
BgpMsgAs4 ==
    {BGP4MP_MESSAGE_AS4, BGP4MP_MESSAGE_AS4_LOCAL, BGP4MP_MESSAGE_AS4_ADDPATH,
     BGP4MP_MESSAGE_AS4_LOCAL_ADDPATH}
BgpMsgAddPath ==
    {BGP4MP_MESSAGE_ADDPATH, BGP4MP_MESSAGE_LOCAL_ADDPATH,
     BGP4MP_MESSAGE_AS4_ADDPATH, BGP4MP_MESSAGE_AS4_LOCAL_ADDPATH}
BgpMsg == BgpMsgAs2 \cup BgpMsgAs4

\* ntohl(usec) * 1000 in uint32_t arithmetic, as the two 16-bit halves
\* <<high, low>> of the product
Usec1000(usec) ==
    LET lo == (256 * usec[3] + usec[4]) * 1000
        hi == (256 * usec[1] + usec[2]) * 1000 + lo \div U16
    IN  <<hi % U16, lo % U16>>

\* the part both decoders share: the timestamp, the _ET microseconds, the
\* AS numbers, if_index and afi.  short is the first length test failing.
Bgp4mpHead(hdr, msg, wide, g) ==
    LET et == hdr.type = MSG_PROTOCOL_BGP4MP_ET
        b0 == IF et THEN 4 ELSE 0
        len0 == IF et THEN hdr.length - 4 ELSE hdr.length
        n == IF wide THEN 4 ELSE 2
    IN  [time |-> [tv_sec |-> hdr.timestamp,
                   tv_nsec |-> IF et THEN Usec1000(Bytes(msg, 0, 4, g))
                               ELSE <<0, 0>>],
         short |-> ULt(len0, 2 * n + 4),
         sas |-> IF wide THEN Bytes(msg, b0, 4, g)
                 ELSE <<0, 0>> \o Bytes(msg, b0, 2, g),
         das |-> IF wide THEN Bytes(msg, b0 + n, 4, g)
                 ELSE <<0, 0>> \o Bytes(msg, b0 + n, 2, g),
         afi |-> Get16(msg, b0 + 2 * n + 2, g),
         b |-> b0 + 2 * n + 4,
         len |-> len0 - 2 * n - 4,
         hi0 |-> b0]

\* a NULL struct mrt_bgp_state pointer
NoState ==
    [set |-> FALSE, time |-> [tv_sec |-> Zero32, tv_nsec |-> <<0, 0>>],
     src_as |-> Zero32, dst_as |-> Zero32, src |-> NoAddr, dst |-> NoAddr,
     old_state |-> 0, new_state |-> 0]

\* mrt_parse_state(hdr, msg, verbose): s is the state returned (NoState:
\* NULL), hi the end of the highest byte of msg read
mrt_parse_state(hdr, msg, g) ==
    LET bh == Bgp4mpHead(hdr, msg, hdr.subtype = BGP4MP_STATE_CHANGE_AS4, g)
        aid == mrt_afi2aid(bh.afi, -1)
    IN  IF bh.short THEN [s |-> NoState, hi |-> bh.hi0]
        ELSE IF aid = "AID_UNSPEC" THEN [s |-> NoState, hi |-> bh.b]
        ELSE
        LET src == mrt_extract_addr(msg, bh.b, bh.len, aid, g)
            dst == mrt_extract_addr(msg, bh.b + src.ret, bh.len - src.ret, aid, g)
            b2 == bh.b + src.ret + dst.ret
        IN  IF src.ret = -1 THEN [s |-> NoState, hi |-> bh.b]
            ELSE IF dst.ret = -1 THEN [s |-> NoState, hi |-> src.rd]
            ELSE [s |-> [set |-> TRUE, time |-> bh.time,
                         src_as |-> bh.sas, dst_as |-> bh.das,
                         src |-> src.addr, dst |-> dst.addr,
                         old_state |-> Get16(msg, b2, g),
                         new_state |-> Get16(msg, b2 + 2, g)],
                  hi |-> b2 + 4]

\* a NULL struct mrt_bgp_msg pointer
NoMsg ==
    [set |-> FALSE, time |-> [tv_sec |-> Zero32, tv_nsec |-> <<0, 0>>],
     src_as |-> Zero32, dst_as |-> Zero32, src |-> NoAddr, dst |-> NoAddr,
     add_path |-> FALSE, msg_len |-> 0, msg |-> NullBuf]

\* mrt_parse_msg(hdr, msg, verbose): m is the message returned (NoMsg:
\* NULL), hi the end of the highest byte of msg read.  abort: the length
\* left is a wrapped u_int, and malloc(len) or the memcpy of len bytes ends
\* the process.
mrt_parse_msg(hdr, msg, g) ==
    LET bh == Bgp4mpHead(hdr, msg, hdr.subtype \in BgpMsgAs4, g)
        aid == mrt_afi2aid(bh.afi, -1)
    IN  IF bh.short THEN [m |-> NoMsg, hi |-> bh.hi0, abort |-> FALSE]
        ELSE IF aid = "AID_UNSPEC" THEN [m |-> NoMsg, hi |-> bh.b, abort |-> FALSE]
        ELSE
        LET src == mrt_extract_addr(msg, bh.b, bh.len, aid, g)
            dst == mrt_extract_addr(msg, bh.b + src.ret, bh.len - src.ret, aid, g)
            b2 == bh.b + src.ret + dst.ret
            len2 == bh.len - src.ret - dst.ret
            m == [set |-> TRUE, time |-> bh.time,
                  src_as |-> bh.sas, dst_as |-> bh.das,
                  src |-> src.addr, dst |-> dst.addr,
                  add_path |-> hdr.subtype \in BgpMsgAddPath,
                  msg_len |-> 0, msg |-> NullBuf]
        IN  IF src.ret = -1 THEN [m |-> NoMsg, hi |-> bh.b, abort |-> FALSE]
            ELSE IF dst.ret = -1 THEN [m |-> NoMsg, hi |-> src.rd, abort |-> FALSE]
            ELSE IF len2 < 0 THEN [m |-> m, hi |-> b2, abort |-> TRUE]
            ELSE IF len2 = 0 THEN [m |-> m, hi |-> b2, abort |-> FALSE]
            ELSE [m |-> [m EXCEPT !.msg_len = len2,
                                  !.msg = MkBuf(Bytes(msg, b2, len2, g))],
                  hi |-> b2 + len2, abort |-> FALSE]

-----------------------------------------------------------------------------
(* The state of mrt_parse before its first read                            *)

\* the header after memset(hdr, 0, sizeof(*hdr))
ZeroHdr == [timestamp |-> Zero32, type |-> 0, subtype |-> 0, length |-> 0]

\* no decoder called yet, EOF not seen yet
NoLast == [n |-> 0, hi |-> 0, len |-> 0, oobw |-> FALSE]
NoEof == [seen |-> FALSE, hgot |-> 0, pgot |-> 0, length |-> 0]

FramerIdle ==
    /\ pc = "read"
    /\ h = ZeroHdr
    /\ msgbuf = <<>>
    /\ pctx = NoPeers
    /\ nread = 0
    /\ stream = <<>>
    /\ log = <<>>
    /\ heap = [msg |-> 0, pctx |-> 0, rec |-> 0]
    /\ last = NoLast
    /\ eof = NoEof

-----------------------------------------------------------------------------
(* Specification SpecInflate: mrt_aspath_inflate applied to AS_PATH        *)
(* payloads.  The payload is the whole buffer, so a read past its end is   *)
(* a read past the attribute.                                              *)

InflateBytes == {0, 1, 2}

\* the AS_PATH of an AS_SEQUENCE { 100, 200 } in 2-byte encoding
SamplePath == <<2, 2, 0, 100, 0, 200>>

\* WrapSegs segments of 255 ASNs each
WrapPath ==
    [i \in 1..(WrapSegs * 512) |->
        IF i % 512 = 1 THEN 2 ELSE IF i % 512 = 2 THEN 255 ELSE 1]

InflateInputs == SeqsUpTo(InflateBytes, MaxPathLen) \cup {SamplePath, WrapPath}

NoInflate ==
    [phase |-> "idle", s |-> SizeStart(0, 0),
     r |-> [ok |-> FALSE, aspath |-> <<>>, newlen |-> 0, written |-> 0, rd |-> 0]]

NoAttr == AttrStart(NewEntry, 0, 0)

InitInflate ==
    /\ junk \in JunkPatterns
    /\ idata \in InflateInputs
    /\ Len(idata) < U16
    /\ ires = [NoInflate EXCEPT !.phase = "size",
                                !.s = SizeStart(0, Len(idata))]
    /\ abuf = <<>>
    /\ aaid = "AID_INET"
    /\ aas4 = FALSE
    /\ ast = NoAttr
    /\ sinks = [dump |-> FALSE, state |-> FALSE, message |-> FALSE]
    /\ FramerIdle

\* one pass through the first for loop
InflateSizeStep ==
    /\ ires.phase = "size"
    /\ ires.s.ok /\ ires.s.olen > 0
    /\ ires' = [ires EXCEPT !.s = SizeIter(idata, ires.s, junk)]
    /\ UNCHANGED <<junk, idata, abuf, aaid, aas4, ast, fvars>>

\* the rest of the function: return NULL, or malloc, the copy pass and
\* return ndata
InflateReturn ==
    /\ ires.phase = "size"
    /\ ~ires.s.ok \/ ires.s.olen = 0
    /\ ires' = [ires EXCEPT !.phase = "done",
                            !.r = InflateResult(idata, 0, ires.s, junk)]
    /\ UNCHANGED <<junk, idata, abuf, aaid, aas4, ast, fvars>>

NextInflate == InflateSizeStep \/ InflateReturn

SpecInflate == InitInflate /\ [][NextInflate]_vars

-----------------------------------------------------------------------------
(* Specification SpecAttr: mrt_extract_attr stepped one attribute at a     *)
(* time over attribute blocks.  The block starts at offset 0 of abuf; abuf *)
(* may extend past the block (the rest of the record) or end with it.      *)

TlvOrigin == <<64, 1, 1, 0>>
TlvOriginBad == <<64, 1, 2, 0, 0>>
TlvAspath == <<64, 2, 4, 2, 1, 0, 100>>
TlvAspathBad == <<64, 2, 3, 2, 1, 0>>
TlvNexthop == <<64, 3, 4, 10, 0, 0, 1>>
TlvMed == <<128, 4, 4, 0, 0, 0, 5>>
TlvLocalPref == <<64, 5, 4, 0, 0, 0, 100>>
TlvAs4Path == <<192, 17, 6, 2, 1, 0, 1, 0, 0>>
TlvUnknown == <<192, 8, 4, 1, 2, 3, 4>>
TlvUnknownExt == <<208, 8, 0, 2, 9, 9>>
TlvEmpty == <<192, 8, 0>>

\* MP_REACH_NLRI whose payload is first followed by n - 1 bytes
TlvMp(n, first) == <<128, 14, n, first>> \o [i \in 1..(n - 1) |-> 32 + i]
\* RFC 6396 form: the next-hop length and the next hop
TlvMpRfc(n) == TlvMp(n, n - 1)
\* old form: AFI, SAFI, next-hop length, next hop, reserved
TlvMpOld(n) == <<128, 14, n + 3, 0, 2, 1>> \o [i \in 1..n |-> 32 + i]
TlvMpNone == <<128, 14, 0>>

TlvCatalog ==
    {TlvOrigin, TlvOriginBad, TlvAspath, TlvAspathBad, TlvNexthop, TlvMed,
     TlvLocalPref, TlvAs4Path, TlvUnknown, TlvUnknownExt,
     TlvMpRfc(17), TlvMpOld(18), TlvMpRfc(12), TlvMpRfc(24), TlvMpNone}

RECURSIVE Blocks(_)
Blocks(n) ==
    IF n = 0 THEN {<<>>}
    ELSE LET shorter == Blocks(n - 1)
         IN  shorter \cup {b \o t : b \in shorter, t \in TlvCatalog}

\* n copies of t
Repeat(t, n) == [i \in 1..(n * Len(t)) |-> t[((i - 1) % Len(t)) + 1]]

\* an attribute block and the buffer it lies in: the block as it is, the
\* block with its last byte outside the span but inside the buffer, and
\* the same with the buffer ending there too
Spans(b) ==
    {[buf |-> b, alen |-> Len(b)]} \cup
    IF b = <<>> THEN {}
    ELSE {[buf |-> b, alen |-> Len(b) - 1],
          [buf |-> SubSeq(b, 1, Len(b) - 1), alen |-> Len(b) - 1]}

AttrInputs ==
    UNION {Spans(b) : b \in Blocks(MaxTlvs)} \cup
    {[buf |-> Repeat(TlvEmpty, n), alen |-> 3 * n] :
        n \in {UCHAR_MAX - 1, UCHAR_MAX}}

\* the blocks of UCHAR_MAX - 1 and more attributes are decoded for one
\* family, encoding and content of the memory around the buffer only
InitAttr ==
    /\ \E in \in AttrInputs :
           /\ abuf = in.buf
           /\ ast = AttrStart(NewEntry, 0, in.alen)
    /\ junk \in IF Len(abuf) < UCHAR_MAX THEN JunkPatterns ELSE {<<0, 0>>}
    /\ aaid \in IF Len(abuf) < UCHAR_MAX THEN AIDS ELSE {"AID_INET"}
    /\ aas4 \in IF Len(abuf) < UCHAR_MAX THEN BOOLEAN ELSE {TRUE}
    /\ idata = <<>>
    /\ ires = NoInflate
    /\ sinks = [dump |-> FALSE, state |-> FALSE, message |-> FALSE]
    /\ FramerIdle

\* one pass through the do/while loop of mrt_extract_attr
AttrStep ==
    /\ ast.status = "run"
    /\ ast' = AttrIter(abuf, ast, aaid, aas4, junk)
    /\ UNCHANGED <<junk, idata, ires, abuf, aaid, aas4, fvars>>

NextAttr == AttrStep

SpecAttr == InitAttr /\ [][NextAttr]_vars

-----------------------------------------------------------------------------
(* mrt_read_buf, mrt_read_msg and the records of the input                 *)

\* a record as the descriptor holds it; length is the header field
Rec(type, subtype, payload) ==
    [timestamp |-> <<95, 0, 0, 0>>, type |-> type, subtype |-> subtype,
     length |-> Len(payload), payload |-> payload]

\* mrt_read_buf(fd, buf, len) on a descriptor that delivers avail more
\* bytes before EOF: the number of bytes stored
mrt_read_buf(avail, len) == IF avail < len THEN avail ELSE len

\* mrt_read_msg(fd, hdr) with the descriptor leaving off the record after
\* its unread bytes: buf is the buffer returned (NullBuf: NULL), hdr what
\* *hdr holds, malloc and free the blocks allocated and freed
mrt_read_msgNoFree(in) ==
    IF mrt_read_buf(in.hgot, HdrSize) # HdrSize
    THEN [buf |-> NullBuf, hdr |-> ZeroHdr, malloc |-> 0, free |-> 0]
    ELSE LET hd == [timestamp |-> in.rec.timestamp, type |-> in.rec.type,
                   subtype |-> in.rec.subtype, length |-> in.rec.length]
         IN  IF mrt_read_buf(in.pgot, hd.length) # hd.length
             THEN [buf |-> NullBuf, hdr |-> hd, malloc |-> 1, free |-> 0]
             ELSE [buf |-> MkBuf(SubSeq(in.rec.payload, 1, hd.length)),
                   hdr |-> hd, malloc |-> 1, free |-> 0]
mrt_read_msg(in) ==
    IF mrt_read_buf(in.hgot, HdrSize) # HdrSize
    THEN [buf |-> NullBuf, hdr |-> ZeroHdr, malloc |-> 0, free |-> 0]
    ELSE LET hd == [timestamp |-> in.rec.timestamp, type |-> in.rec.type,
                   subtype |-> in.rec.subtype, length |-> in.rec.length]
         IN  IF mrt_read_buf(in.pgot, hd.length) # hd.length
             THEN [buf |-> NullBuf, hdr |-> hd, malloc |-> 1, free |-> 1]
             ELSE [buf |-> MkBuf(SubSeq(in.rec.payload, 1, hd.length)),
                   hdr |-> hd, malloc |-> 1, free |-> 0]

\* the MRT types mrt_parse reports as deprecated and as unsupported
DeprecatedTypes == {0, 1, 2, 3, 4, 5, 7, 9, 10}
UnsupportedTypes == {6, 8, 11, 32, 33, 48, 49}
ParsedTypes ==
    {MSG_TABLE_DUMP, MSG_TABLE_DUMP_V2, MSG_PROTOCOL_BGP4MP,
     MSG_PROTOCOL_BGP4MP_ET}

\* records no decoder is called for
RecNull == Rec(0, 0, <<>>)
RecOspf == Rec(11, 0, <<1>>)
RecUnknownType == Rec(99, 0, <<>>)
RecDumpBadAfi == Rec(MSG_TABLE_DUMP, 3, <<>>)
RecV2Other == Rec(MSG_TABLE_DUMP_V2, 7, <<>>)
RecSnapshot == Rec(MSG_PROTOCOL_BGP4MP, 3, <<>>)

\* PEER_INDEX_TABLE: no peer; one IPv4 peer with a 2-byte AS; the same
\* ending before the AS; too short for the fixed part
RecPeerIndexEmpty ==
    Rec(MSG_TABLE_DUMP_V2, MRT_DUMP_V2_PEER_INDEX_TABLE,
        <<1, 2, 3, 4, 0, 0, 0, 0>>)
RecPeerIndexOne ==
    Rec(MSG_TABLE_DUMP_V2, MRT_DUMP_V2_PEER_INDEX_TABLE,
        <<1, 2, 3, 4, 0, 1, 118, 0, 1, 0, 9, 9, 9, 9, 10, 0, 0, 2, 0, 100>>)
RecPeerIndexCut ==
    Rec(MSG_TABLE_DUMP_V2, MRT_DUMP_V2_PEER_INDEX_TABLE,
        <<1, 2, 3, 4, 0, 1, 118, 0, 1, 0, 9, 9, 9, 9, 10, 0, 0, 2>>)
RecPeerIndexShort ==
    Rec(MSG_TABLE_DUMP_V2, MRT_DUMP_V2_PEER_INDEX_TABLE,
        <<1, 2, 3, 4, 0, 0, 0>>)

\* an AS_PATH attribute in 4-byte encoding
TlvAspath4 == <<64, 2, 6, 2, 1, 0, 0, 0, 100>>

\* RIB_IPV4_UNICAST for 10.0.0.0/24: one entry without attributes; one
\* entry with ORIGIN and AS_PATH; two entries, the first with an AS_PATH
\* and the second cut off
RibHead(seq, cnt) == <<0, 0, 0, seq, 24, 10, 0, 0, 0, cnt>>
RibEntry(attrs) == <<0, 0, 95, 0, 0, 0, 0, Len(attrs)>> \o attrs
RecRibNoAttrs ==
    Rec(MSG_TABLE_DUMP_V2, MRT_DUMP_V2_RIB_IPV4_UNICAST,
        RibHead(1, 1) \o RibEntry(<<>>))
RecRibGood ==
    Rec(MSG_TABLE_DUMP_V2, MRT_DUMP_V2_RIB_IPV4_UNICAST,
        RibHead(2, 1) \o RibEntry(<<64, 1, 1, 0>> \o TlvAspath4))
RecRibSecondCut ==
    Rec(MSG_TABLE_DUMP_V2, MRT_DUMP_V2_RIB_IPV4_UNICAST,
        RibHead(3, 2) \o RibEntry(TlvAspath4) \o <<0, 1, 0, 0>>)

\* TABLE_DUMP: an IPv4 route with the attribute block attrs; one too short
\* for its fixed part; an IPv6 route ending after the peer address
DumpV4(attrs) ==
    <<0, 0, 0, 1, 10, 0, 0, 0, 24, 1, 95, 0, 0, 0, 192, 0, 2, 1, 0, 100,
      0, Len(attrs)>> \o attrs
RecDumpV4 == Rec(MSG_TABLE_DUMP, MRT_DUMP_AFI_IP, DumpV4(<<64, 1, 1, 0>>))
RecDumpV4TwoPaths ==
    Rec(MSG_TABLE_DUMP, MRT_DUMP_AFI_IP,
        DumpV4(<<64, 2, 4, 2, 1, 0, 100, 64, 2, 4, 2, 1, 0, 200>>))
RecDumpV4Short ==
    Rec(MSG_TABLE_DUMP, MRT_DUMP_AFI_IP, SubSeq(DumpV4(<<>>), 1, 10))
RecDumpV6Cut ==
    Rec(MSG_TABLE_DUMP, MRT_DUMP_AFI_IPv6,
        <<0, 0, 0, 1>> \o [i \in 1..16 |-> 32] \o <<64, 1, 95, 0, 0, 0>> \o
        [i \in 1..16 |-> 33])

\* BGP4MP state changes: STATE_CHANGE_AS4 in a BGP4MP_ET record;
\* STATE_CHANGE ending after the two addresses; a BGP4MP_ET record of two
\* bytes; an unknown address family.  RecStateEtWrap: a BGP4MP_ET
\* STATE_CHANGE whose microsecond field is 0x00420000
StateAs2(afi) == <<0, 100, 0, 200, 0, 0, 0, afi, 1, 1, 1, 1, 2, 2, 2, 2>>
RecStateAs4Et ==
    Rec(MSG_PROTOCOL_BGP4MP_ET, BGP4MP_STATE_CHANGE_AS4,
        <<0, 0, 3, 232, 0, 1, 0, 0, 0, 2, 0, 0, 0, 0, 0, 1, 1, 1, 1, 1,
          2, 2, 2, 2, 0, 3, 0, 6>>)
RecStateEtWrap ==
    Rec(MSG_PROTOCOL_BGP4MP_ET, BGP4MP_STATE_CHANGE,
        <<0, 66, 0, 0>> \o StateAs2(1) \o <<0, 3, 0, 6>>)
RecStateCut == Rec(MSG_PROTOCOL_BGP4MP, BGP4MP_STATE_CHANGE, StateAs2(1))
RecStateEtShort == Rec(MSG_PROTOCOL_BGP4MP_ET, BGP4MP_STATE_CHANGE, <<0, 0>>)
RecStateBadAfi ==
    Rec(MSG_PROTOCOL_BGP4MP, BGP4MP_STATE_CHANGE, StateAs2(9) \o <<0, 3, 0, 6>>)

\* BGP4MP messages: a message of five bytes; one too short for the AS
\* numbers; a BGP4MP_ET record of two bytes
RecMessage ==
    Rec(MSG_PROTOCOL_BGP4MP, BGP4MP_MESSAGE, StateAs2(1) \o <<255, 255, 0, 19, 4>>)
RecMessageShort ==
    Rec(MSG_PROTOCOL_BGP4MP, BGP4MP_MESSAGE_AS4, <<0, 0, 0, 100>>)
RecMessageEtShort == Rec(MSG_PROTOCOL_BGP4MP_ET, BGP4MP_MESSAGE, <<0, 0>>)

\* BGP4MP_ENTRY: an IPv4 route with an ORIGIN; one ending in the AS numbers
RecEntry ==
    Rec(MSG_PROTOCOL_BGP4MP, BGP4MP_ENTRY,
        StateAs2(1) \o
        <<0, 0, 0, 1, 95, 0, 0, 0, 0, 1, 1, 4, 10, 0, 0, 1, 24, 10, 0, 0,
          0, 4, 64, 1, 1, 0>>)
RecEntryShort ==
    Rec(MSG_PROTOCOL_BGP4MP, BGP4MP_ENTRY, <<0, 100, 0, 200>>)

\* a record announcing 100 bytes
RecLong ==
    Rec(MSG_TABLE_DUMP_V2, MRT_DUMP_V2_RIB_IPV4_UNICAST, [i \in 1..100 |-> 0])

Catalog ==
    {RecNull, RecOspf, RecUnknownType, RecDumpBadAfi, RecV2Other, RecSnapshot,
     RecPeerIndexEmpty, RecPeerIndexOne, RecPeerIndexCut, RecPeerIndexShort,
     RecRibNoAttrs, RecRibGood, RecRibSecondCut,
     RecDumpV4, RecDumpV4TwoPaths, RecDumpV4Short, RecDumpV6Cut,
     RecStateAs4Et, RecStateEtWrap, RecStateCut, RecStateEtShort, RecStateBadAfi,
     RecMessage, RecMessageShort, RecMessageEtShort,
     RecEntry, RecEntryShort}

\* what the descriptor delivers to one call of mrt_read_msg: hgot bytes of
\* the header and pgot bytes of the payload of rec.  A whole record; EOF
\* at the start of or inside the header; EOF inside the payload.
Inputs ==
    {[hgot |-> HdrSize, pgot |-> r.length, rec |-> r] : r \in Catalog} \cup
    {[hgot |-> k, pgot |-> 0, rec |-> RecRibGood] : k \in {0, HdrSize - 1}} \cup
    {[hgot |-> HdrSize, pgot |-> r.length - 1, rec |-> r] :
        r \in {RecRibGood, RecStateAs4Et}} \cup
    {[hgot |-> HdrSize, pgot |-> 50, rec |-> RecLong]}

-----------------------------------------------------------------------------
(* Specification Spec: mrt_parse over streams of up to MaxRecs records     *)
(* from the catalog, ending in EOF at a record boundary or inside a        *)
(* record.  A decoder that reads past the payload buffer or stores outside *)
(* the peer array lets the process go on with the bytes it found or end.   *)

SinkConfigs ==
    {[dump |-> d, state |-> t, message |-> t] : d, t \in BOOLEAN}

\* out-of-bounds bytes that let a decoder end within a few steps
FramerJunk == {<<0, 0>>, <<0, 1>>}

AttrIdle ==
    /\ idata = <<>>
    /\ ires = NoInflate
    /\ abuf = <<>>
    /\ aaid = "AID_INET"
    /\ aas4 = FALSE
    /\ ast = NoAttr

Init ==
    /\ junk \in FramerJunk
    /\ sinks \in SinkConfigs
    /\ FramerIdle
    /\ AttrIdle

\* while ((msg = mrt_read_msg(fd, &h))): a record is read
ReadMsg ==
    /\ pc = "read"
    /\ nread < MaxRecs
    /\ \E in \in Inputs :
           LET m == mrt_read_msg(in)
           IN  /\ m.buf.set
               /\ h' = m.hdr
               /\ msgbuf' = m.buf.bytes
               /\ heap' = [heap EXCEPT !.msg = @ + m.malloc - m.free]
               /\ stream' = Append(stream, [hdr |-> m.hdr, msg |-> m.buf.bytes])
    /\ nread' = nread + 1
    /\ pc' = "switch"
    /\ UNCHANGED <<junk, avars, pctx, sinks, log, last, eof>>

\* a call of a sink: which one, for which record, and its arguments
Sink(name, val, pp) == [sink |-> name, n |-> nread, val |-> val, pctx |-> pp]

\* mrt_free_peers(p): the contexts it frees
mrt_free_peers(p) == IF p.set THEN 1 ELSE 0

\* mrt_read_msg returns NULL: the loop ends, if (pctx) mrt_free_peers(pctx),
\* and mrt_parse returns
ReadEof ==
    /\ pc = "read"
    /\ \E in \in Inputs :
           LET m == mrt_read_msg(in)
           IN  /\ ~m.buf.set
               /\ h' = m.hdr
               /\ heap' = [heap EXCEPT !.msg = @ + m.malloc - m.free,
                                       !.pctx = @ - mrt_free_peers(pctx)]
               /\ eof' = [seen |-> TRUE, hgot |-> in.hgot, pgot |-> in.pgot,
                          length |-> in.rec.length]
    /\ pc' = "done"
    /\ UNCHANGED <<junk, avars, msgbuf, pctx, sinks, nread, stream, log, last>>

\* whether the process may have ended in the decoder: it read past the
\* payload buffer or stored outside the peer array
Crashes(hi, oobw) == IF hi > h.length \/ oobw THEN BOOLEAN ELSE {FALSE}

\* the rest of one pass through the loop after the decoder returned: the
\* sink call (newlog), the context (newpctx), the contexts and record
\* blocks allocated less those freed (dp, dr), break, free(msg).  fatal:
\* the decoder called err().
Loop(newlog, newpctx, dp, dr, hi, oobw, fatal) ==
    \E crash \in Crashes(hi, oobw) :
        LET stop == fatal \/ crash
        IN  /\ pc' = IF stop THEN "exit" ELSE "read"
            /\ log' = IF stop THEN log ELSE newlog
            /\ pctx' = IF stop THEN pctx ELSE newpctx
            /\ heap' = IF stop THEN heap
                       ELSE [msg |-> heap.msg - 1, pctx |-> heap.pctx + dp,
                             rec |-> heap.rec + dr]
            /\ last' = [n |-> nread, hi |-> hi, len |-> h.length,
                        oobw |-> oobw]
            /\ UNCHANGED <<junk, avars, h, msgbuf, sinks, nread, stream, eof>>

\* a case that only breaks
Skip == Loop(log, pctx, 0, 0, 0, FALSE, FALSE)

\* case MSG_NULL ... MSG_PROTOCOL_BGP4PLUS1
DeprecatedType ==
    /\ pc = "switch"
    /\ h.type \in DeprecatedTypes
    /\ Skip

\* case MSG_PROTOCOL_RIP ... MSG_PROTOCOL_OSPFV3
UnsupportedType ==
    /\ pc = "switch"
    /\ h.type \in UnsupportedTypes
    /\ Skip

\* default: unknown MRT type
UnknownType ==
    /\ pc = "switch"
    /\ h.type \notin DeprecatedTypes \cup UnsupportedTypes \cup ParsedTypes
    /\ Skip

\* the blocks of a record left after the sink call and mrt_free_rib(r), or
\* after the decoder failed
RibLeft(d) == IF d.how = "ok" THEN d.live - mrt_free_rib(d.r) ELSE d.live

\* after a legacy decoder returned d: if it returned 0, p->dump(r, pctx,
\* p->arg) and mrt_free_rib(r)
LegacyRib(d) ==
    Loop(IF d.ret = 0 THEN Append(log, Sink("dump", d.r, d.pp)) ELSE log,
         d.pp, IF pctx.set THEN 0 ELSE 1, RibLeft(d),
         d.hi, d.oobw, d.how = "fatal")

\* case MSG_TABLE_DUMP, case MRT_DUMP_AFI_IP / MRT_DUMP_AFI_IPv6
TableDump ==
    /\ pc = "switch"
    /\ h.type = MSG_TABLE_DUMP
    /\ h.subtype \in {MRT_DUMP_AFI_IP, MRT_DUMP_AFI_IPv6}
    /\ IF ~sinks.dump THEN Skip
       ELSE LegacyRib(mrt_parse_dump(h, msgbuf, pctx, junk))

\* case MSG_TABLE_DUMP, default: unknown AFI in table dump
UnknownDumpAfi ==
    /\ pc = "switch"
    /\ h.type = MSG_TABLE_DUMP
    /\ h.subtype \notin {MRT_DUMP_AFI_IP, MRT_DUMP_AFI_IPv6}
    /\ Skip

\* PeerIndex without the mrt_free_peers(pctx) of the context replaced
PeerIndexNoFree(d) ==
    Loop(log, d.p, mrt_free_peers(d.p), 0, d.hi, FALSE, FALSE)

\* if (pctx) mrt_free_peers(pctx); pctx = d.p
PeerIndex(d) ==
    Loop(log, d.p, mrt_free_peers(d.p) - mrt_free_peers(pctx), 0,
         d.hi, FALSE, FALSE)

\* case MSG_TABLE_DUMP_V2, case MRT_DUMP_V2_PEER_INDEX_TABLE
PeerIndexTable ==
    /\ pc = "switch"
    /\ h.type = MSG_TABLE_DUMP_V2
    /\ h.subtype = MRT_DUMP_V2_PEER_INDEX_TABLE
    /\ IF ~sinks.dump THEN Skip
       ELSE PeerIndex(mrt_parse_v2_peer(h, msgbuf, junk))

\* if (r) p->dump(r, pctx, p->arg) and mrt_free_rib(r)
DumpV2Rib(d) ==
    Loop(IF d.how = "ok" THEN Append(log, Sink("dump", d.r, pctx)) ELSE log,
         pctx, 0, RibLeft(d), d.hi, FALSE, d.how = "fatal")

\* case MSG_TABLE_DUMP_V2, case MRT_DUMP_V2_RIB_*
V2RibRecord ==
    /\ pc = "switch"
    /\ h.type = MSG_TABLE_DUMP_V2
    /\ h.subtype \in V2Rib
    /\ IF ~sinks.dump THEN Skip
       ELSE DumpV2Rib(mrt_parse_v2_rib(h, msgbuf, junk))

\* case MSG_TABLE_DUMP_V2, default: unhandled DUMP_V2 subtype
UnknownV2Subtype ==
    /\ pc = "switch"
    /\ h.type = MSG_TABLE_DUMP_V2
    /\ h.subtype \notin V2Rib \cup {MRT_DUMP_V2_PEER_INDEX_TABLE}
    /\ Skip

\* if (s) p->state(s, p->arg) if the sink is set, and free(s)
StateSink(d) ==
    Loop(IF d.s.set /\ sinks.state
         THEN Append(log, Sink("state", d.s, NoPeers)) ELSE log,
         pctx, 0, 0, d.hi, FALSE, FALSE)

\* case MSG_PROTOCOL_BGP4MP(_ET), case BGP4MP_STATE_CHANGE(_AS4)
StateChange ==
    /\ pc = "switch"
    /\ h.type \in {MSG_PROTOCOL_BGP4MP, MSG_PROTOCOL_BGP4MP_ET}
    /\ h.subtype \in BgpState
    /\ StateSink(mrt_parse_state(h, msgbuf, junk))

\* if (m) p->message(m, p->arg) if the sink is set, free(m->msg), free(m)
MessageSink(d) ==
    Loop(IF d.m.set /\ sinks.message
         THEN Append(log, Sink("message", d.m, NoPeers)) ELSE log,
         pctx, 0, 0, d.hi, FALSE, d.abort)

\* case MSG_PROTOCOL_BGP4MP(_ET), case BGP4MP_MESSAGE*
Message ==
    /\ pc = "switch"
    /\ h.type \in {MSG_PROTOCOL_BGP4MP, MSG_PROTOCOL_BGP4MP_ET}
    /\ h.subtype \in BgpMsg
    /\ MessageSink(mrt_parse_msg(h, msgbuf, junk))

\* case MSG_PROTOCOL_BGP4MP(_ET), case BGP4MP_ENTRY
Entry ==
    /\ pc = "switch"
    /\ h.type \in {MSG_PROTOCOL_BGP4MP, MSG_PROTOCOL_BGP4MP_ET}
    /\ h.subtype = BGP4MP_ENTRY
    /\ IF ~sinks.dump THEN Skip
       ELSE LegacyRib(mrt_parse_dump_mp(h, msgbuf, pctx, junk))

\* case MSG_PROTOCOL_BGP4MP(_ET), default: unhandled BGP4MP subtype
UnknownBgp4mpSubtype ==
    /\ pc = "switch"
    /\ h.type \in {MSG_PROTOCOL_BGP4MP, MSG_PROTOCOL_BGP4MP_ET}
    /\ h.subtype \notin BgpState \cup BgpMsg \cup {BGP4MP_ENTRY}
    /\ Skip

Next ==
    \/ ReadMsg
    \/ ReadEof
    \/ DeprecatedType
    \/ UnsupportedType
    \/ UnknownType
    \/ TableDump
    \/ UnknownDumpAfi
    \/ PeerIndexTable
    \/ V2RibRecord
    \/ UnknownV2Subtype
    \/ StateChange
    \/ Message
    \/ Entry
    \/ UnknownBgp4mpSubtype

Spec == Init /\ [][Next]_vars

-----------------------------------------------------------------------------
(* Properties of mrt_parse and the record decoders (Spec).                 *)

\* C1: every byte a decoder reads from the payload of a record lies below
\* the header length field: the end of the highest byte read by the decoder
\* called last is at most the length of its record.
C1_ReadsBelowLength == last.hi <= last.len

\* whether mrt_parse calls a sink for the record: the decoder returns
\* success and the sink is set
Returns(rec) ==
    LET t == rec.hdr.type
        sub == rec.hdr.subtype
        bgp4mp == t \in {MSG_PROTOCOL_BGP4MP, MSG_PROTOCOL_BGP4MP_ET}
    IN  CASE t = MSG_TABLE_DUMP /\ sub \in {MRT_DUMP_AFI_IP, MRT_DUMP_AFI_IPv6} ->
                 /\ sinks.dump
                 /\ mrt_parse_dump(rec.hdr, rec.msg, NoPeers, junk).ret = 0
          [] t = MSG_TABLE_DUMP_V2 /\ sub \in V2Rib ->
                 /\ sinks.dump
                 /\ mrt_parse_v2_rib(rec.hdr, rec.msg, junk).how = "ok"
          [] bgp4mp /\ sub \in BgpState ->
                 /\ sinks.state
                 /\ mrt_parse_state(rec.hdr, rec.msg, junk).s.set
          [] bgp4mp /\ sub \in BgpMsg ->
                 /\ sinks.message
                 /\ mrt_parse_msg(rec.hdr, rec.msg, junk).m.set
          [] bgp4mp /\ sub = BGP4MP_ENTRY ->
                 /\ sinks.dump
                 /\ mrt_parse_dump_mp(rec.hdr, rec.msg, NoPeers, junk).ret = 0
          [] OTHER -> FALSE

\* the records the switch has been through
Dispatched == IF pc \in {"switch", "exit"} THEN nread - 1 ELSE nread

\* the records among the first k of the stream that satisfy Test, in order
Among(k, Test(_)) == SelectSeq([i \in 1..k |-> i], LAMBDA i : Test(stream[i]))

\* the records the sinks were called for, in the order of the calls
Delivered == [i \in 1..Len(log) |-> log[i].n]

\* C2: the sink invocations are exactly the records decoded successfully
\* whose sink is set, in input order, one per record and made before the
\* next header is read; a skipped or discarded record produces none and
\* does not stop the framing loop.
C2_SinksFollowInput ==
    /\ pc # "exit"
    /\ Delivered = Among(Dispatched, Returns)

\* C3: once the descriptor has reached EOF inside a header or a payload,
\* mrt_parse has returned: the sinks were called for the complete records
\* that decode and for nothing else, the payload buffer is freed and the
\* peer context released; a stream shorter than a header calls no sink.
C3_EofEndsParse ==
    eof.seen =>
        /\ pc = "done"
        /\ eof.hgot < HdrSize \/ eof.pgot < eof.length
        /\ Delivered = Among(nread, Returns)
        /\ heap.msg = 0
        /\ heap.pctx = 0
        /\ nread = 0 => log = <<>>

\* EOF inside the payload of the record that follows MaxRecs complete
\* ones, after a delivery and with a peer context held
C3_Witness ==
    /\ eof.seen
    /\ eof.hgot = HdrSize
    /\ eof.pgot < eof.length
    /\ nread = MaxRecs
    /\ log # <<>>
    /\ pctx.set

\* the entry of RecRibNoAttrs
EntryNoAttrs ==
    [NewEntry EXCEPT !.peer_idx = 0, !.originated = <<95, 0, 0, 0>>]

\* C4: a TABLE_DUMP_V2 RIB record whose entry has attr_len = 0 decodes: the
\* rib is delivered to the dump sink with that entry, its peer_idx and
\* originated set, no aspath and no extra attributes.
C4_EmptyAttrsDelivered ==
    /\ pc = "read"
    /\ nread > 0
    /\ stream[nread].msg = RecRibNoAttrs.payload
    /\ stream[nread].hdr.subtype = MRT_DUMP_V2_RIB_IPV4_UNICAST
    /\ sinks.dump
    => /\ log # <<>>
       /\ log[Len(log)].n = nread
       /\ log[Len(log)].val.entries.list = <<EntryNoAttrs>>

\* C6: every allocation made for a record is released when its decoder
\* fails and when its pass through the loop ends: between records and after
\* mrt_parse returned no block of a record is live.
C6_RecordBlocksFreed == pc \in {"read", "done"} => heap.rec = 0

-----------------------------------------------------------------------------
(* Properties of mrt_aspath_inflate (SpecInflate).                         *)

\* the payload from offset i on is a sequence of whole segments
RECURSIVE WellFramedFrom(_, _)
WellFramedFrom(d, i) ==
    IF i = Len(d) THEN TRUE
    ELSE IF Len(d) - i < 2 THEN FALSE
    ELSE IF i + 2 + 2 * d[i + 2] > Len(d) THEN FALSE
    ELSE WellFramedFrom(d, i + 2 + 2 * d[i + 2])

\* the segments from offset i on with every ASN zero-extended to 4 bytes
RECURSIVE ZeroExtendFrom(_, _)
ZeroExtendFrom(d, i) ==
    IF i >= Len(d) THEN <<>>
    ELSE <<d[i + 1], d[i + 2]>>
         \o [k \in 1..(4 * d[i + 2]) |->
                IF (k - 1) % 4 < 2 THEN 0
                ELSE d[i + 2 + 2 * ((k - 1) \div 4) + ((k - 1) % 4) - 1]]
         \o ZeroExtendFrom(d, i + 2 + 2 * d[i + 2])

\* C7: mrt_aspath_inflate returns, for every exactly framed 2-byte AS_PATH,
\* the same segments with 4-byte ASNs, reports their true length, writes
\* nothing beyond the buffer it allocated (of the reported length), and
\* returns failure for every other payload; it reads no byte beyond the
\* payload (not the seg_len byte of a segment with fewer than 2 bytes left).
C7_InflateExact ==
    ires.phase = "done" =>
        /\ ires.r.rd <= Len(idata)
        /\ IF WellFramedFrom(idata, 0)
           THEN /\ ires.r.ok
                /\ ires.r.aspath = ZeroExtendFrom(idata, 0)
                /\ ires.r.newlen = Len(ZeroExtendFrom(idata, 0))
                /\ ires.r.written <= ires.r.newlen
           ELSE ~ires.r.ok

-----------------------------------------------------------------------------
(* Properties of mrt_extract_attr (SpecAttr).                              *)

\* C5: mrt_extract_attr does not return success when a TLV's declared
\* length exceeds the bytes left in the span after its header, nor after
\* reading bytes beyond the end of the span.
C5_OverrunFails ==
    ast.status = "ok" =>
        /\ \A i \in 1..Len(ast.tlvs) : ast.tlvs[i].len <= ast.tlvs[i].left
        /\ ast.rd <= ast.end

\* C8: for every MP_REACH_NLRI payload the peeked byte is inside the
\* payload, the length left after the 3-byte skip is not negative, and the
\* next-hop bytes copied end within the payload left after the skip.
C8_MpReachInside ==
    \A i \in 1..Len(ast.mp) :
        LET m == ast.mp[i]
            left == IF m.skip THEN m.len0 - 3 ELSE m.len0
        IN  /\ m.len0 >= 1
            /\ left >= 0
            /\ m.copied => m.cend <= left

\* the field a TLV of the given type is decoded into: a recognised field,
\* "extra" for extra_attrs, "none" when the TLV is checked and dropped
FieldOf(type, aid, as4) ==
    CASE type = MRT_ATTR_ORIGIN -> "origin"
      [] type = MRT_ATTR_ASPATH -> "aspath"
      [] type = MRT_ATTR_NEXTHOP ->
             IF aid = "AID_INET" THEN "nexthop" ELSE "none"
      [] type = MRT_ATTR_MED -> "med"
      [] type = MRT_ATTR_LOCALPREF -> "local_pref"
      [] type = MRT_ATTR_MP_REACH_NLRI ->
             IF aid = "AID_INET" THEN "none" ELSE "nexthop"
      [] type = MRT_ATTR_AS4PATH -> IF as4 THEN "extra" ELSE "aspath"
      [] OTHER -> "extra"

TlvFields == [i \in 1..Len(ast.tlvs) |-> FieldOf(ast.tlvs[i].type, aaid, aas4)]

ExtraTlvs == SelectSeq(ast.tlvs, LAMBDA t : FieldOf(t.type, aaid, aas4) = "extra")

\* C10: a RibEntry never holds more than 254 extra attributes, nattrs is
\* the number of blobs stored, the extra attribute that would be the 255th
\* ends in the err() exit without being stored, and the blobs are the bytes
\* of the extra TLVs from the flags byte to the end of the payload, in input
\* order.
C10_ExtraAttrsCapped ==
    LET extra == ExtraTlvs
    IN  /\ Len(ast.re.attrs) <= UCHAR_MAX - 1
        /\ ast.status # "fatal" => ast.re.nattrs = Len(ast.re.attrs)
        /\ ast.status = "fatal" <=> Len(extra) = UCHAR_MAX
        /\ Len(ast.re.attrs) =
               IF ast.status = "fatal" THEN Len(extra) - 1 ELSE Len(extra)
        /\ \A i \in 1..Len(ast.re.attrs) :
               ast.re.attrs[i] =
                   Bytes(abuf, extra[i].start, extra[i].hlen + extra[i].len,
                         junk)

\* the 255th extra attribute has just taken the err() exit
C10_Witness ==
    /\ ast.status = "fatal"
    /\ Len(ast.re.attrs) = UCHAR_MAX - 1
    /\ Len(ast.tlvs) = UCHAR_MAX

-----------------------------------------------------------------------------
(* Properties of the peer context held by mrt_parse (Spec).                *)

IsPeerIndex(rec) ==
    /\ rec.hdr.type = MSG_TABLE_DUMP_V2
    /\ rec.hdr.subtype = MRT_DUMP_V2_PEER_INDEX_TABLE

\* the context mrt_parse_v2_peer decodes from the k-th record of the stream
PeerOf(k) == mrt_parse_v2_peer(stream[k].hdr, stream[k].msg, junk).p

\* the last PEER_INDEX_TABLE among the first n records (0: none)
LastPeerIndex(n) ==
    LET S == {k \in 1..n : IsPeerIndex(stream[k])}
    IN  IF S = {} THEN 0 ELSE CHOOSE k \in S : \A j \in S : j <= k

\* a stream of TABLE_DUMP_V2 records, each PEER_INDEX_TABLE decoding, with
\* the dump sink set
V2Stream ==
    /\ sinks.dump
    /\ \A k \in 1..nread :
           /\ stream[k].hdr.type = MSG_TABLE_DUMP_V2
           /\ IsPeerIndex(stream[k]) => PeerOf(k).set

-----------------------------------------------------------------------------
(* Properties of the BGP4MP timestamps (Spec).                             *)

\* usec * 1000 as <<high, low>> with low the 16 low bits and high all the
\* bits above them
NsecExact(usec) ==
    LET lo == (256 * usec[3] + usec[4]) * 1000
    IN  <<(256 * usec[1] + usec[2]) * 1000 + lo \div U16, lo % U16>>

\* the source AS a BGP4MP payload carries at offset b
SrcAsAt(rec, b) ==
    IF rec.hdr.subtype \in BgpMsgAs4 \cup {BGP4MP_STATE_CHANGE_AS4}
    THEN Bytes(rec.msg, b, 4, junk)
    ELSE <<0, 0>> \o Bytes(rec.msg, b, 2, junk)

\* C12: every state or message delivered carries the header timestamp as
\* seconds; for a BGP4MP_ET record its nanoseconds are usec * 1000 for the
\* leading microsecond field usec, without reduction modulo 2^32; for a
\* BGP4MP record they are 0 and the source AS is read at offset 0.
C12_NsecIsUsecTimes1000 ==
    \A i \in 1..Len(log) :
        log[i].sink \in {"state", "message"} =>
            LET rec == stream[log[i].n]
                val == log[i].val
            IN  /\ val.time.tv_sec = rec.hdr.timestamp
                /\ IF rec.hdr.type = MSG_PROTOCOL_BGP4MP_ET
                   THEN val.time.tv_nsec = NsecExact(Bytes(rec.msg, 0, 4, junk))
                   ELSE /\ val.time.tv_nsec = <<0, 0>>
                        /\ val.src_as = SrcAsAt(rec, 0)

-----------------------------------------------------------------------------
(* Properties of mrt_parse_v2_peer (Spec).                                 *)

\* the n peer entries a PEER_INDEX_TABLE payload holds from offset b on;
\* ok is FALSE when the payload ends before the last of them does
RECURSIVE WirePeersFrom(_, _, _)
WirePeersFrom(msg, b, n) ==
    IF n = 0 THEN [ok |-> TRUE, peers |-> <<>>]
    ELSE IF b + 1 > Len(msg) THEN [ok |-> FALSE, peers |-> <<>>]
    ELSE
    LET type == msg[b + 1]
        v6 == HasBit(type, MRT_DUMP_V2_PEER_BIT_I)
        wide == HasBit(type, MRT_DUMP_V2_PEER_BIT_A)
        alen == IF v6 THEN 16 ELSE 4
        size == 5 + alen + (IF wide THEN 4 ELSE 2)
    IN  IF b + size > Len(msg) THEN [ok |-> FALSE, peers |-> <<>>]
        ELSE
        LET rest == WirePeersFrom(msg, b + size, n - 1)
            as == SubSeq(msg, b + 6 + alen, b + size)
        IN  [ok |-> rest.ok,
             peers |-> <<[bgp_id |-> SubSeq(msg, b + 2, b + 5),
                          addr |-> [aid |-> IF v6 THEN "AID_INET6"
                                            ELSE "AID_INET",
                                    addr |-> SubSeq(msg, b + 6, b + 5 + alen)],
                          asnum |-> IF wide THEN as ELSE <<0, 0>> \o as]>>
                       \o rest.peers]

\* the context a PEER_INDEX_TABLE payload describes; NoPeers when the
\* payload ends inside a field
WireContext(msg) ==
    IF Len(msg) < 6 THEN NoPeers
    ELSE
    LET vlen == 256 * msg[5] + msg[6]
    IN  IF 6 + vlen + 2 > Len(msg) THEN NoPeers
        ELSE
        LET cnt == 256 * msg[7 + vlen] + msg[8 + vlen]
            w == WirePeersFrom(msg, 8 + vlen, cnt)
        IN  IF ~w.ok THEN NoPeers
            ELSE [set |-> TRUE, bgp_id |-> SubSeq(msg, 1, 4),
                  view |-> MkBuf(SubSeq(msg, 7, 6 + vlen)),
                  npeers |-> cnt, peers |-> w.peers]

\* C13: the context mrt_parse holds after a PEER_INDEX_TABLE record is the
\* one its payload describes: peer_count entries with the bgp_id, address
\* and AS number of the wire entries in input order, the collector id and
\* the view name verbatim; it holds none when the payload ends inside a
\* field.
C13_PeerIndexAsOnWire ==
    /\ pc = "read"
    /\ sinks.dump
    /\ nread > 0
    /\ IsPeerIndex(stream[nread])
    => pctx = WireContext(stream[nread].msg)

-----------------------------------------------------------------------------
(* Properties of the legacy decoders and the peer context (Spec).          *)

\* C14: a legacy decoder (mrt_parse_dump, mrt_parse_dump_mp) that stores
\* the peer address or AS number through p->peers does so into a context
\* that has at least one entry: no decoder called so far has stored outside
\* the peer array, whatever records preceded it.
C14_SlotZeroExists == ~last.oobw

\* C15: every call of the dump sink passes a context that is not NULL, and
\* the context passed for the record handled last is the one mrt_parse
\* holds, unreleased.
C15_DumpGetsContext ==
    \A i \in 1..Len(log) :
        log[i].sink = "dump" =>
            /\ log[i].pctx.set
            /\ log[i].n = Dispatched /\ pc # "done" =>
                   /\ log[i].pctx = pctx
                   /\ heap.pctx = 1

\* the record in h goes to mrt_parse_dump or mrt_parse_dump_mp
LegacyRecord ==
    \/ /\ h.type = MSG_TABLE_DUMP
       /\ h.subtype \in {MRT_DUMP_AFI_IP, MRT_DUMP_AFI_IPv6}
    \/ /\ h.type \in {MSG_PROTOCOL_BGP4MP, MSG_PROTOCOL_BGP4MP_ET}
       /\ h.subtype = BGP4MP_ENTRY

\* C16: a pass through the loop in which a legacy decoder is called and
\* fails, so that the record is discarded without a dump invocation, leaves
\* the context mrt_parse holds as it was: same presence, same entries, same
\* address and AS number in slot 0.
C16_DiscardKeepsContext ==
    [][(/\ pc = "switch"
        /\ pc' = "read"
        /\ sinks.dump
        /\ LegacyRecord
        /\ log' = log) => pctx' = pctx]_vars

====
